---- MODULE Spec2Model ----
(***************************************************************************)
(* JSON-API query parameters (src/query.rs): Query::from_params decodes a   *)
(* query string into a Query through five extractors that work on the      *)
(* key-tree the tokenizer (queryst::parse) returns; Query::to_params       *)
(* renders a Query back into a string.                                     *)
(*                                                                         *)
(* A Rust String is a sequence of one-character strings, so that split,    *)
(* join, parsing and formatting are computed character by character.       *)
(*                                                                         *)
(* The tokenizer and the document parser (serde_json) are other crates.    *)
(* Which strings the tokenizer rejects is not decided here: rejects holds  *)
(* the strings it returns Err on in a run, none or the input itself, and   *)
(* never an input the tests decode through the Ok arm.                     *)
(***************************************************************************)
EXTENDS Integers, Sequences, FiniteSets, TLC

\* At most this many key=value pairs in a decoded input string.
MaxPairs == 2

----------------------------------------------------------------------------
(* Strings *)

\* The characters in use, in ascending byte order (String's Ord is bytewise).
Ascii ==
    << "!", "\"", "&", "+", ",", "-", "/",
       "0", "1", "2", "3", "4", "5", "6", "7", "8", "9",
       ":", "=", "[", "\\", "]",
       "a", "b", "c", "d", "e", "f", "g", "i", "j", "k", "l", "m", "n", "o",
       "p", "r", "s", "t", "u", "x", "y", "{", "}" >>

CharCode(c) == CHOOSE i \in 1..Len(Ascii) : Ascii[i] = c

Digits == {"0", "1", "2", "3", "4", "5", "6", "7", "8", "9"}

DigitVal(c) == CharCode(c) - CharCode("0")

DigitChar(d) == Ascii[CharCode("0") + d]

\* str < str, bytewise lexicographic (the order of BTreeMap<String, _> keys).
RECURSIVE StrLess(_, _)
StrLess(a, b) ==
    IF b = <<>> THEN FALSE
    ELSE IF a = <<>> THEN TRUE
    ELSE IF a[1] # b[1] THEN CharCode(a[1]) < CharCode(b[1])
    ELSE StrLess(Tail(a), Tail(b))

\* str::find of a pattern: the first position where pat starts, 0 for None.
Find(s, pat) ==
    LET hits == {i \in 1..(Len(s) - Len(pat) + 1) :
                    SubSeq(s, i, i + Len(pat) - 1) = pat}
    IN IF hits = {} THEN 0 ELSE CHOOSE i \in hits : \A j \in hits : i <= j

\* str::split(sep).collect(): every piece is kept, the empty ones too, and
\* the empty string splits into one empty piece.
RECURSIVE Split(_, _)
Split(s, sep) ==
    LET i == Find(s, <<sep>>)
    IN IF i = 0 THEN <<s>>
       ELSE <<SubSeq(s, 1, i - 1)>> \o Split(SubSeq(s, i + 1, Len(s)), sep)

\* [String]::join(sep): the empty list joins to the empty string.
RECURSIVE Join(_, _)
Join(list, sep) ==
    IF list = <<>> THEN <<>>
    ELSE IF Len(list) = 1 THEN list[1]
    ELSE list[1] \o sep \o Join(Tail(list), sep)

\* The keys of a BTreeMap in iteration order: ascending.
RECURSIVE SortedKeys(_)
SortedKeys(keys) ==
    IF keys = {} THEN <<>>
    ELSE LET least == CHOOSE k \in keys : \A o \in keys \ {k} : StrLess(k, o)
         IN <<least>> \o SortedKeys(keys \ {least})

\* The decimal digits of a natural number.
RECURSIVE NatDigits(_)
NatDigits(n) ==
    IF n < 10 THEN <<DigitChar(n)>>
    ELSE NatDigits(n \div 10) \o <<DigitChar(n % 10)>>

\* format!("{}", i64)
FmtI64(n) == IF n < 0 THEN <<"-">> \o NatDigits(0 - n) ELSE NatDigits(n)

RECURSIVE DigitsValue(_)
DigitsValue(ds) ==
    IF ds = <<>> THEN 0
    ELSE DigitsValue(SubSeq(ds, 1, Len(ds) - 1)) * 10 + DigitVal(ds[Len(ds)])

RECURSIVE StripZeros(_)
StripZeros(ds) ==
    IF ds # <<>> /\ ds[1] = "0" THEN StripZeros(Tail(ds)) ELSE ds

\* i64::MAX = 9223372036854775807 and -i64::MIN, as digits.
I64MaxDigits ==
    << "9", "2", "2", "3", "3", "7", "2", "0", "3", "6", "8", "5", "4", "7",
       "7", "5", "8", "0", "7" >>

I64MinDigits ==
    << "9", "2", "2", "3", "3", "7", "2", "0", "3", "6", "8", "5", "4", "7",
       "7", "5", "8", "0", "8" >>

\* Whether the magnitude written by ds exceeds the one written by lim.
Exceeds(ds, lim) ==
    LET d == StripZeros(ds)
    IN \/ Len(d) > Len(lim)
       \/ Len(d) = Len(lim) /\ StrLess(lim, d)

\* str::parse::<i64>: an optional sign, then one digit or more, within the
\* range of i64; anything else is an Err.
ParseI64(s) ==
    LET neg == s # <<>> /\ s[1] = "-"
        signed == s # <<>> /\ s[1] \in {"-", "+"}
        ds == IF signed THEN Tail(s) ELSE s
    IN IF ds = <<>> \/ \E i \in 1..Len(ds) : ds[i] \notin Digits
          THEN [ok |-> FALSE, v |-> 0]
       ELSE IF Exceeds(ds, IF neg THEN I64MinDigits ELSE I64MaxDigits)
          THEN [ok |-> FALSE, v |-> 0]
       ELSE [ok |-> TRUE,
             v |-> IF neg THEN 0 - DigitsValue(ds) ELSE DigitsValue(ds)]

----------------------------------------------------------------------------
(* Values: serde_json::Value and Option *)

None == [some |-> FALSE]

Some(x) == [some |-> TRUE, v |-> x]

EmptyMap == [k \in {} |-> <<>>]

Put(m, k, x) == [y \in DOMAIN m \cup {k} |-> IF y = k THEN x ELSE m[y]]

VString(s) == [t |-> "String", s |-> s, m |-> EmptyMap, n |-> 0]

VObject(m) == [t |-> "Object", s |-> <<>>, m |-> m, n |-> 0]

VArray == [t |-> "Array", s |-> <<>>, m |-> EmptyMap, n |-> 0]

VNumber(n) == [t |-> "Number", s |-> <<>>, m |-> EmptyMap, n |-> n]

\* Value::as_str: Some only of a String.
AsStr(x) == IF x.t = "String" THEN Some(x.s) ELSE None

\* Value::pointer along a path of object keys: None as soon as a key is
\* missing or the value met is no object.
RECURSIVE Pointer(_, _)
Pointer(x, path) ==
    IF path = <<>> THEN Some(x)
    ELSE IF x.t = "Object" /\ path[1] \in DOMAIN x.m
        THEN Pointer(x.m[path[1]], Tail(path))
    ELSE None

----------------------------------------------------------------------------
(* The key names *)

kInclude == <<"i", "n", "c", "l", "u", "d", "e">>
kFields == <<"f", "i", "e", "l", "d", "s">>
kSort == <<"s", "o", "r", "t">>
kFilter == <<"f", "i", "l", "t", "e", "r">>
kPage == <<"p", "a", "g", "e">>
kOffset == <<"o", "f", "f", "s", "e", "t">>
kLimit == <<"l", "i", "m", "i", "t">>

----------------------------------------------------------------------------
(* The tokenizer, queryst::parse: a query string to a key-tree.  Pairs are  *)
(* split on '&', a pair on its first "]=" or '=', a key into its parent    *)
(* and its [child] names; the pairs are merged into one tree of objects    *)
(* with String leaves.  The inputs hold no percent-escape, no '+', no      *)
(* array key ([] or [<number>]) and no two pairs for one place.            *)

\* One pair: its key and, after the separator if there is one, its value.
parse_pair(part) ==
    LET b == Find(part, <<"]", "=">>)
        e == Find(part, <<"=">>)
        pos == IF b # 0 THEN b + 1 ELSE e
    IN IF pos = 0 THEN [key |-> part, val |-> <<>>]
       ELSE [key |-> SubSeq(part, 1, pos - 1),
             val |-> SubSeq(part, pos + 1, Len(part))]

\* The [child] names of a key, brackets removed, left to right.
RECURSIVE ChildKeys(_)
ChildKeys(key) ==
    LET o == Find(key, <<"[">>)
        rest == SubSeq(key, o + 1, Len(key))
        c == Find(rest, <<"]">>)
        n == Find(rest, <<"[">>)
    IN IF o = 0 \/ c = 0 THEN <<>>
       ELSE IF n # 0 /\ n < c THEN ChildKeys(SubSeq(rest, n, Len(rest)))
       ELSE <<SubSeq(rest, 1, c - 1)>>
                \o ChildKeys(SubSeq(rest, c + 1, Len(rest)))

\* The key chain: the text before the first bracket, then the children.
parse_key(key) ==
    LET o == Find(key, <<"[">>)
        c == Find(key, <<"]">>)
        stop == IF o = 0 THEN c ELSE IF c = 0 THEN o
                ELSE IF o < c THEN o ELSE c
        parent == IF stop = 0 THEN key ELSE SubSeq(key, 1, stop - 1)
    IN (IF parent = <<>> THEN <<>> ELSE <<parent>>)
           \o ChildKeys(key)

\* The nested objects of a key chain around a value.
RECURSIVE apply_object(_, _)
apply_object(keys, val) ==
    IF keys = <<>> THEN val
    ELSE VObject(Put(EmptyMap, keys[1], apply_object(Tail(keys), val)))

\* Two objects merge member by member; anything else is replaced.
RECURSIVE merge(_, _)
merge(to, from) ==
    IF to.t = "Object" /\ from.t = "Object"
    THEN VObject([k \in DOMAIN to.m \cup DOMAIN from.m |->
                    IF k \notin DOMAIN from.m THEN to.m[k]
                    ELSE IF k \notin DOMAIN to.m THEN from.m[k]
                    ELSE merge(to.m[k], from.m[k])])
    ELSE from

RECURSIVE merge_pairs(_, _)
merge_pairs(tree, parts) ==
    IF parts = <<>> THEN tree
    ELSE LET p == parse_pair(parts[1])
             keys == parse_key(p.key)
         IN merge_pairs(
                IF keys = <<>> THEN tree
                ELSE merge(tree, apply_object(keys, VString(p.val))),
                Tail(parts))

tokenize(params) == merge_pairs(VObject(EmptyMap), Split(params, "&"))

----------------------------------------------------------------------------
(* The document parser, serde_json::from_str, and Value's Display, on the  *)
(* documents in use: numbers, the empty array, and flat objects whose      *)
(* members are numbers or strings.  A string's text holds no '"' and no    *)
(* ','; the one escape in it is \u0026, the character '&'.                  *)

IsNumber(s) ==
    /\ s # <<>>
    /\ \A i \in 1..Len(s) : s[i] \in Digits
    /\ (Len(s) > 1 => s[1] # "0")

Escape == <<"\\", "u", "0", "0", "2", "6">>

\* A string token: quoted, no quote inside, every backslash opening \u0026.
IsString(s) ==
    /\ Len(s) >= 2
    /\ s[1] = "\""
    /\ s[Len(s)] = "\""
    /\ \A i \in 2..(Len(s) - 1) :
           /\ s[i] # "\""
           /\ s[i] = "\\" =>
                  /\ i + Len(Escape) <= Len(s)
                  /\ SubSeq(s, i, i + Len(Escape) - 1) = Escape

\* The text between the quotes with its escapes replaced.
RECURSIVE Unescape(_)
Unescape(s) ==
    IF s = <<>> THEN <<>>
    ELSE IF s[1] = "\\"
        THEN <<"&">> \o Unescape(SubSeq(s, Len(Escape) + 1, Len(s)))
    ELSE <<s[1]>> \o Unescape(Tail(s))

\* One member, "name":number or "name":"text".
IsMember(s) ==
    LET c == Find(s, <<"\"", ":">>)
    IN /\ Len(s) >= 4
       /\ s[1] = "\""
       /\ c > 1
       /\ Find(SubSeq(s, 2, c - 1), <<"\"">>) = 0
       /\ \/ IsNumber(SubSeq(s, c + 2, Len(s)))
          \/ IsString(SubSeq(s, c + 2, Len(s)))

MemberName(s) == SubSeq(s, 2, Find(s, <<"\"", ":">>) - 1)

MemberValue(s) ==
    LET text == SubSeq(s, Find(s, <<"\"", ":">>) + 2, Len(s))
    IN IF IsNumber(text) THEN VNumber(DigitsValue(text))
       ELSE VString(Unescape(SubSeq(text, 2, Len(text) - 1)))

\* A later member of the same name replaces an earlier one.
RECURSIVE Members(_, _)
Members(m, list) ==
    IF list = <<>> THEN m
    ELSE Members(Put(m, MemberName(list[1]), MemberValue(list[1])),
                 Tail(list))

from_str(s) ==
    IF IsNumber(s) THEN [ok |-> TRUE, v |-> VNumber(DigitsValue(s))]
    ELSE IF s = <<"[", "]">> THEN [ok |-> TRUE, v |-> VArray]
    ELSE IF Len(s) >= 2 /\ s[1] = "{" /\ s[Len(s)] = "}"
        THEN LET body == SubSeq(s, 2, Len(s) - 1)
                 list == Split(body, ",")
             IN IF body = <<>> THEN [ok |-> TRUE, v |-> VObject(EmptyMap)]
                ELSE IF \A i \in 1..Len(list) : IsMember(list[i])
                    THEN [ok |-> TRUE, v |-> VObject(Members(EmptyMap, list))]
                ELSE [ok |-> FALSE, v |-> VArray]
    ELSE [ok |-> FALSE, v |-> VArray]

\* format!("{}", Value): compact, an object's members in key order, a
\* string's text between quotes ('&' is written as it is; the texts here
\* hold none of the characters Display escapes).
RECURSIVE Display(_)
Display(x) ==
    IF x.t = "Number" THEN FmtI64(x.n)
    ELSE IF x.t = "String" THEN <<"\"">> \o x.s \o <<"\"">>
    ELSE IF x.t = "Array" THEN <<"[", "]">>
    ELSE LET keys == SortedKeys(DOMAIN x.m)
         IN <<"{">>
              \o Join([i \in 1..Len(keys) |->
                         <<"\"">> \o keys[i] \o <<"\"", ":">>
                             \o Display(x.m[keys[i]])], <<",">>)
              \o <<"}">>

----------------------------------------------------------------------------
(* The extractors.  Each yields its value v and, in log, the warn! lines   *)
(* it writes, in order.                                                    *)

ok_params_include(o) ==
    LET inc == Pointer(o, <<kInclude>>)
    IN IF ~inc.some THEN None
       ELSE IF ~AsStr(inc.v).some THEN None
       ELSE Some(Split(AsStr(inc.v).v, ","))

\* One member of the fields object: its String split on ',', or no names.
fields_member(value) ==
    IF AsStr(value).some THEN Split(AsStr(value).v, ",") ELSE <<>>

\* ok_params_fields, were the members that are no String left out.
ok_params_fields_strings_only(o) ==
    LET x == Pointer(o, <<kFields>>)
    IN IF ~x.some THEN [v |-> EmptyMap, log |-> <<>>]
       ELSE IF x.v.t = "Object"
           THEN [v |-> [key \in {k \in DOMAIN x.v.m : AsStr(x.v.m[k]).some}
                          |-> fields_member(x.v.m[key])],
                 log |-> <<>>]
       ELSE [v |-> EmptyMap, log |-> <<"No fields found">>]

ok_params_fields(o) ==
    LET x == Pointer(o, <<kFields>>)
    IN IF ~x.some THEN [v |-> EmptyMap, log |-> <<>>]
       ELSE IF x.v.t = "Object"
           THEN [v |-> [key \in DOMAIN x.v.m |-> fields_member(x.v.m[key])],
                 log |-> <<>>]
       ELSE [v |-> EmptyMap, log |-> <<"No fields found">>]

\* ok_params_sort, were the empty pieces left out.
ok_params_sort_skip_empty(o) ==
    LET sort == Pointer(o, <<kSort>>)
        Named(s) == s # <<>>
    IN IF ~sort.some THEN None
       ELSE IF ~AsStr(sort.v).some THEN None
       ELSE Some(SelectSeq(Split(AsStr(sort.v).v, ","), Named))

ok_params_sort(o) ==
    LET sort == Pointer(o, <<kSort>>)
    IN IF ~sort.some THEN None
       ELSE IF ~AsStr(sort.v).some THEN None
       ELSE Some(Split(AsStr(sort.v).v, ","))

\* ok_params_filter, were the parsed document's shape not looked at.
ok_params_filter_any_shape(o) ==
    LET x == Pointer(o, <<kFilter>>)
    IN IF ~x.some THEN [v |-> None, log |-> <<>>]
       ELSE IF ~AsStr(x.v).some THEN [v |-> None, log |-> <<>>]
       ELSE LET parsed_json == from_str(AsStr(x.v).v)
            IN IF ~parsed_json.ok THEN [v |-> None, log |-> <<>>]
               ELSE [v |-> Some(parsed_json.v), log |-> <<>>]

\* x.as_str()? and .ok()? return None at once, with no warn!.
ok_params_filter(o) ==
    LET x == Pointer(o, <<kFilter>>)
    IN IF ~x.some THEN [v |-> None, log |-> <<>>]
       ELSE IF ~AsStr(x.v).some THEN [v |-> None, log |-> <<>>]
       ELSE LET parsed_json == from_str(AsStr(x.v).v)
            IN IF ~parsed_json.ok THEN [v |-> None, log |-> <<>>]
               ELSE IF parsed_json.v.t = "Object"
                   THEN [v |-> Some(parsed_json.v), log |-> <<>>]
               ELSE [v |-> None, log |-> <<"No filter found">>]

\* page_offset, were the value parsed as unsigned.
page_offset_unsigned(o) ==
    LET num == Pointer(o, <<kPage, kOffset>>)
    IN IF ~num.some THEN [v |-> 0, log |-> <<"No page/offset found">>]
       ELSE IF num.v.t = "String"
           THEN LET y == ParseI64(AsStr(num.v).v)
                IN [v |-> IF y.ok /\ y.v >= 0 THEN y.v ELSE 0, log |-> <<>>]
       ELSE [v |-> 0, log |-> <<"page/offset not an expected type">>]

\* num.as_str().map(str::parse::<i64>) of a String is always Some(result),
\* and unwrap_or(0) turns an Err into 0: the arm that warns "not able to
\* parse it" is taken only when as_str() is None, which a String never is.
page_offset(o) ==
    LET num == Pointer(o, <<kPage, kOffset>>)
    IN IF ~num.some THEN [v |-> 0, log |-> <<"No page/offset found">>]
       ELSE IF num.v.t = "String"
           THEN IF AsStr(num.v).some
                THEN LET y == ParseI64(AsStr(num.v).v)
                     IN [v |-> IF y.ok THEN y.v ELSE 0, log |-> <<>>]
                ELSE [v |-> 0, log |-> <<"page/offset not able to parse it">>]
       ELSE [v |-> 0, log |-> <<"page/offset not an expected type">>]

page_limit(o) ==
    LET num == Pointer(o, <<kPage, kLimit>>)
    IN IF ~num.some THEN [v |-> 0, log |-> <<"No page/limit found">>]
       ELSE IF num.v.t = "String"
           THEN IF AsStr(num.v).some
                THEN LET y == ParseI64(AsStr(num.v).v)
                     IN [v |-> IF y.ok THEN y.v ELSE 0, log |-> <<>>]
                ELSE [v |-> 0, log |-> <<"page/limit not able to parse it">>]
       ELSE [v |-> 0, log |-> <<"page/limit not an expected type">>]

ok_params_page(o) ==
    [v |-> [offset |-> page_offset(o).v, limit |-> page_limit(o).v],
     log |-> page_offset(o).log \o page_limit(o).log]

\* ok_params, were an empty fields map given as None.
ok_params_absent_fields(o) ==
    [v |-> [_type |-> "none",
            include |-> ok_params_include(o),
            fields |-> IF ok_params_fields(o).v = EmptyMap THEN None
                       ELSE Some(ok_params_fields(o).v),
            page |-> Some(ok_params_page(o).v),
            sort |-> ok_params_sort(o),
            filter |-> ok_params_filter(o).v],
     log |-> ok_params_fields(o).log \o ok_params_page(o).log
                 \o ok_params_filter(o).log]

\* The struct literal evaluates its fields in the order written.
ok_params(o) ==
    [v |-> [_type |-> "none",
            include |-> ok_params_include(o),
            fields |-> Some(ok_params_fields(o).v),
            page |-> Some(ok_params_page(o).v),
            sort |-> ok_params_sort(o),
            filter |-> ok_params_filter(o).v],
     log |-> ok_params_fields(o).log \o ok_params_page(o).log
                 \o ok_params_filter(o).log]

\* Query::default(): the empty String and None everywhere.
DefaultQuery ==
    [_type |-> "", include |-> None, fields |-> None, page |-> None,
     sort |-> None, filter |-> None]

\* parse(params): the tokenizer's Err on the strings it rejects, else Ok of
\* the key-tree.
parse(params, rejects) ==
    IF params \in rejects THEN [ok |-> FALSE, v |-> VObject(EmptyMap)]
    ELSE [ok |-> TRUE, v |-> tokenize(params)]

\* from_params, were the Err arm to run the extractors on an empty tree.
from_params_defaulting(params, rejects) ==
    LET r == parse(params, rejects)
    IN IF r.ok THEN ok_params(r.v)
       ELSE [v |-> ok_params(VObject(EmptyMap)).v,
             log |-> <<"Can't parse">> \o ok_params(VObject(EmptyMap)).log]

from_params(params, rejects) ==
    LET r == parse(params, rejects)
    IN IF r.ok THEN ok_params(r.v)
       ELSE [v |-> [DefaultQuery EXCEPT !._type = "none"],
             log |-> <<"Can't parse">>]

\* PageParams::to_params, were the offset written first.
PageParams_offset_first(page) ==
    <<"p", "a", "g", "e", "[", "o", "f", "f", "s", "e", "t", "]", "=">>
        \o FmtI64(page.offset)
        \o <<"&", "p", "a", "g", "e", "[", "l", "i", "m", "i", "t", "]", "=">>
        \o FmtI64(page.limit)

PageParams_to_params(page) ==
    <<"p", "a", "g", "e", "[", "l", "i", "m", "i", "t", "]", "=">>
        \o FmtI64(page.limit)
        \o <<"&", "p", "a", "g", "e", "[", "o", "f", "f", "s", "e", "t", "]",
             "=">>
        \o FmtI64(page.offset)

\* include_group, were a None include written as an empty list.
include_group_always(self) ==
    << <<"i", "n", "c", "l", "u", "d", "e", "=">>
          \o Join(IF self.include.some THEN self.include.v ELSE <<>>,
                  <<",">>) >>

\* The groups pushed onto params, each empty when its field is None.
include_group(self) ==
    IF self.include.some
    THEN << <<"i", "n", "c", "l", "u", "d", "e", "=">>
               \o Join(self.include.v, <<",">>) >>
    ELSE <<>>

\* One group for each entry, in the map's own order.
fields_groups(self) ==
    IF self.fields.some
    THEN LET names == SortedKeys(DOMAIN self.fields.v)
         IN [i \in 1..Len(names) |->
               <<"f", "i", "e", "l", "d", "s", "[">> \o names[i]
                   \o <<"]", "=">>
                   \o Join(self.fields.v[names[i]], <<",">>)]
    ELSE <<>>

sort_group(self) ==
    IF self.sort.some
    THEN << <<"s", "o", "r", "t", "=">> \o Join(self.sort.v, <<",">>) >>
    ELSE <<>>

filter_group(self) ==
    IF self.filter.some
    THEN << <<"f", "i", "l", "t", "e", "r", "=">> \o Display(self.filter.v) >>
    ELSE <<>>

page_group(self) ==
    IF self.page.some THEN <<PageParams_to_params(self.page.v)>> ELSE <<>>

\* The pushes in the order written, then params.join("&").
to_params(self) ==
    Join(include_group(self) \o fields_groups(self) \o sort_group(self)
             \o filter_group(self) \o page_group(self),
         <<"&">>)

----------------------------------------------------------------------------
(* The inputs: query strings of up to MaxPairs pairs, and Query values     *)
(* built by assigning the fields.                                          *)

\* A pair of a query string: its key path, whether '=' is written, its value.
Pair(path, val) == [path |-> path, eq |-> TRUE, val |-> val]

Bare(path) == [path |-> path, eq |-> FALSE, val |-> <<>>]

Pairs ==
    << Pair(<<kInclude>>, <<"a", ",", "b">>),
       Pair(<<kInclude>>, <<>>),
       Pair(<<kInclude>>, <<",", "a", ",", ",", "a">>),
       Pair(<<kInclude, <<"x">>>>, <<"a">>),
       Pair(<<kFields, <<"k">>>>, <<"a", ",", "b">>),
       Pair(<<kFields, <<"k">>>>, <<>>),
       Pair(<<kFields, <<"k">>, <<"x">>>>, <<"a">>),
       Pair(<<kFields>>, <<"a">>),
       Pair(<<kFields, <<"j">>>>, <<"c">>),
       Bare(<<kFields, <<"k">>>>),
       Pair(<<kSort>>, <<"-", "a", ",", "b">>),
       Pair(<<kSort>>, <<"a", ",">>),
       Pair(<<kSort, <<"x">>>>, <<"a">>),
       Pair(<<kFilter>>, <<"{", "}">>),
       Pair(<<kFilter>>, <<"[", "]">>),
       Pair(<<kFilter>>, <<"7">>),
       Pair(<<kFilter>>, <<"{">>),
       Pair(<<kFilter>>, <<"{", "\"", "b", "\"", ":", "2", ",",
                           "\"", "a", "\"", ":", "1", "}">>),
       Pair(<<kFilter>>, <<"{", "\"", "a", "\"", ":",
                           "\"", "\\", "u", "0", "0", "2", "6", "\"", "}">>),
       Pair(<<kFilter>>, <<"{", "\"", "a", "\"", ":", "\"", "b", "\"", "}">>),
       Pair(<<kFilter, <<"x">>>>, <<"{", "}">>),
       Pair(<<kPage, kOffset>>, <<"3">>),
       Pair(<<kPage, kOffset>>, <<"-", "2">>),
       Pair(<<kPage, kOffset>>, <<"x">>),
       Pair(<<kPage, kOffset>>, <<>>),
       Pair(<<kPage, kOffset, <<"x">>>>, <<"1">>),
       Pair(<<kPage, kLimit>>, <<"1", "0">>),
       Pair(<<kPage, kLimit>>, <<"/">>),
       Pair(<<kPage, kLimit>>, I64MinDigits),
       Pair(<<kPage, kLimit, <<"x">>>>, <<"1">>),
       Pair(<<kPage>>, <<>>),
       Bare(<< <<"!">> >>) >>

\* page[offset]: the first name, then each further name in brackets.
RECURSIVE Brackets(_)
Brackets(path) ==
    IF path = <<>> THEN <<>>
    ELSE <<"[">> \o path[1] \o <<"]">> \o Brackets(Tail(path))

PairText(p) ==
    p.path[1] \o Brackets(Tail(p.path))
        \o (IF p.eq THEN <<"=">> \o p.val ELSE <<>>)

\* Two pairs whose key paths are one a prefix of the other write the same
\* place of the tree; the inputs hold no two such pairs.
Prefix(a, b) == Len(a) <= Len(b) /\ SubSeq(b, 1, Len(a)) = a

Clash(i, j) ==
    \/ Prefix(Pairs[i].path, Pairs[j].path)
    \/ Prefix(Pairs[j].path, Pairs[i].path)

\* The ascending index lists of at most n pairs, no two clashing.
RECURSIVE Picks(_)
Picks(n) ==
    IF n = 0 THEN {<<>>}
    ELSE LET less == Picks(n - 1)
         IN less \cup
            {Append(p, i) : <<p, i>> \in
                {<<p, i>> \in less \X (1..Len(Pairs)) :
                    /\ Len(p) = n - 1
                    /\ \A k \in 1..Len(p) : p[k] < i /\ ~Clash(p[k], i)}}

Inputs ==
    {Join([k \in 1..Len(p) |-> PairText(Pairs[p[k]])], <<"&">>) :
        p \in Picks(MaxPairs)}

\* Inputs the tests decode through the Ok arm (fields and page are Some):
\* the tokenizer accepts them.  Of any other string it may return Err.
Accepted == {<<>>, <<"!">>}

\* Query values built by hand, as a caller of to_params may.
HandBuilt ==
    [_type : {"none", "post"},
     include : {None, Some(<<>>), Some(<< <<"a">> >>),
                Some(<< <<"b">>, <<"a">> >>)},
     fields : {None, Some(EmptyMap),
               Some(Put(EmptyMap, <<"u">>, << <<"n">> >>)),
               Some(Put(Put(EmptyMap, <<"u">>, << <<"n">>, <<"d">> >>),
                        <<"i">>, << <<"t">> >>))},
     page : {None, Some([offset |-> 10, limit |-> 5])},
     sort : {None, Some(<< <<"-", "n">>, <<"c">> >>)},
     filter : {None, Some(VObject(EmptyMap))}]

----------------------------------------------------------------------------
(* The state machine: a string is decoded, or a Query is built by hand;    *)
(* the Query is encoded; the string it gave is decoded and encoded again.  *)

VARIABLES
    pc,         \* "start", "built", "decoded", "encoded", "redecoded", "done"
    params,     \* the string given to from_params
    rejects,    \* the strings on which the tokenizer returns Err
    tree,       \* Some of what parse(params) returned, once it was called
    query,      \* the Query decoded from params, or built by hand
    log,        \* the warn! lines written so far
    encoded,    \* query.to_params()
    query2,     \* from_params(encoded)
    encoded2    \* query2.to_params()

vars == <<pc, params, rejects, tree, query, log, encoded, query2, encoded2>>

Init ==
    /\ \/ /\ pc = "start"
          /\ params \in Inputs
          /\ rejects \in IF params \in Accepted THEN {{}} ELSE {{}, {params}}
          /\ query = DefaultQuery
       \/ /\ pc = "built"
          /\ params = <<>>
          /\ rejects = {}
          /\ query \in HandBuilt
    /\ tree = None
    /\ log = <<>>
    /\ encoded = <<>>
    /\ query2 = DefaultQuery
    /\ encoded2 = <<>>

\* Query::from_params(params)
FromParams ==
    /\ pc = "start"
    /\ tree' = Some(parse(params, rejects))
    /\ query' = from_params(params, rejects).v
    /\ log' = log \o from_params(params, rejects).log
    /\ pc' = "decoded"
    /\ UNCHANGED <<params, rejects, encoded, query2, encoded2>>

\* query.to_params()
ToParams ==
    /\ pc \in {"decoded", "built"}
    /\ encoded' = to_params(query)
    /\ pc' = "encoded"
    /\ UNCHANGED <<params, rejects, tree, query, log, query2, encoded2>>

\* Query::from_params(&query.to_params())
Redecode ==
    /\ pc = "encoded"
    /\ query2' = from_params(encoded, rejects).v
    /\ log' = log \o from_params(encoded, rejects).log
    /\ pc' = "redecoded"
    /\ UNCHANGED <<params, rejects, tree, query, encoded, encoded2>>

\* Query::from_params(&query.to_params()).to_params()
Reencode ==
    /\ pc = "redecoded"
    /\ encoded2' = to_params(query2)
    /\ pc' = "done"
    /\ UNCHANGED <<params, rejects, tree, query, log, encoded, query2>>

Next == FromParams \/ ToParams \/ Redecode \/ Reencode

Spec == Init /\ [][Next]_vars

----------------------------------------------------------------------------
(* The claims *)

Decoded == pc = "decoded"

\* from_params returned through its Ok arm, with the key-tree o.
DecodedOk == pc = "decoded" /\ tree.some /\ tree.v.ok

o == tree.v.v

Range(s) == {s[i] : i \in DOMAIN s}

\* C1, as written: after from_params, on any input string, those the
\* tokenizer rejects included, fields and page are Some.
C1_AlwaysSome ==
    Decoded => query.fields.some /\ query.page.some

\* C1, amended: fields and page are Some after from_params exactly when the
\* tokenizer accepted the input; when it reported an error both are None.
C1_SomeIffTokenized ==
    Decoded =>
        /\ query.fields.some <=> tree.v.ok
        /\ query.page.some <=> tree.v.ok

\* The input "!" of the tests, accepted by the tokenizer: both are Some.
C1_Witness ==
    /\ DecodedOk
    /\ params = <<"!">>
    /\ query.fields = Some(EmptyMap)
    /\ query.page = Some([offset |-> 0, limit |-> 0])

\* C3: when the tokenizer fails, from_params still returns: a Query with
\* _type "none" and include, fields, page, sort and filter all None; the
\* only diagnostic is that of the failure, none of an extractor.
C3_ErrGivesDefault ==
    Decoded /\ ~tree.v.ok =>
        /\ query = [_type |-> "none", include |-> None, fields |-> None,
                    page |-> None, sort |-> None, filter |-> None]
        /\ log = <<"Can't parse">>

\* A rejected input that names every page value: nothing of it is decoded.
C3_Witness ==
    /\ Decoded
    /\ ~tree.v.ok
    /\ params = PairText(Pair(<<kPage, kOffset>>, <<"3">>)) \o <<"&">>
                    \o PairText(Pair(<<kPage, kLimit>>, <<"1", "0">>))
    /\ query.page = None

\* The page value the claim gives for a key of the page object.
C4_Value(key) ==
    LET leaf == Pointer(o, <<kPage, key>>)
    IN IF leaf.some /\ leaf.v.t = "String" /\ ParseI64(leaf.v.s).ok
       THEN ParseI64(leaf.v.s).v
       ELSE 0

\* C4: on tokenizer success, page.offset is decided by page/offset alone
\* and page.limit by page/limit alone: the parsed integer, negative ones
\* included, of a String that parses, and 0 otherwise.
C4_PageValues ==
    DecodedOk =>
        /\ query.page.v.offset = C4_Value(kOffset)
        /\ query.page.v.limit = C4_Value(kLimit)

\* page[offset]=-2&page[limit]=/ : the offset is -2 beside an invalid limit.
C4_Witness ==
    /\ DecodedOk
    /\ params = PairText(Pair(<<kPage, kOffset>>, <<"-", "2">>)) \o <<"&">>
                    \o PairText(Pair(<<kPage, kLimit>>, <<"/">>))
    /\ query.page.v = [offset |-> -2, limit |-> 0]

Encoded == pc = "encoded"

\* a and b with '&' between them, or the one of them that is not empty.
C5_Amp(a, b) ==
    IF a = <<>> THEN b ELSE IF b = <<>> THEN a ELSE a \o <<"&">> \o b

\* The items of a list in stored order, with ',' between them.
RECURSIVE C5_Commas(_)
C5_Commas(list) ==
    IF list = <<>> THEN <<>>
    ELSE IF Len(list) = 1 THEN list[1]
    ELSE C5_Commas(SubSeq(list, 1, Len(list) - 1)) \o <<",">>
             \o list[Len(list)]

\* The fields[<key>] groups of the entries named in keys, ascending: the
\* greatest key's group comes last.
RECURSIVE C5_Fields(_, _)
C5_Fields(m, keys) ==
    IF keys = {} THEN <<>>
    ELSE LET g == CHOOSE k \in keys : \A x \in keys \ {k} : StrLess(x, k)
         IN C5_Amp(C5_Fields(m, keys \ {g}),
                   kFields \o <<"[">> \o g \o <<"]", "=">> \o C5_Commas(m[g]))

C5_Text(q) ==
    LET inc == IF q.include.some
               THEN kInclude \o <<"=">> \o C5_Commas(q.include.v) ELSE <<>>
        fld == IF q.fields.some
               THEN C5_Fields(q.fields.v, DOMAIN q.fields.v) ELSE <<>>
        srt == IF q.sort.some
               THEN kSort \o <<"=">> \o C5_Commas(q.sort.v) ELSE <<>>
        flt == IF q.filter.some
               THEN kFilter \o <<"=">> \o Display(q.filter.v) ELSE <<>>
        pag == IF q.page.some
               THEN kPage \o <<"[">> \o kLimit \o <<"]", "=">>
                        \o FmtI64(q.page.v.limit)
                        \o <<"&">> \o kPage \o <<"[">> \o kOffset
                        \o <<"]", "=">> \o FmtI64(q.page.v.offset)
               ELSE <<>>
    IN C5_Amp(C5_Amp(C5_Amp(C5_Amp(inc, fld), srt), flt), pag)

RECURSIVE C6_ListLen(_)
C6_ListLen(list) ==
    IF list = <<>> THEN 0
    ELSE IF Len(list) = 1 THEN Len(list[1])
    ELSE Len(list[1]) + 1 + C6_ListLen(Tail(list))

RECURSIVE C6_FieldsLen(_, _)
C6_FieldsLen(m, keys) ==
    IF keys = {} THEN 0
    ELSE LET k == CHOOSE x \in keys : TRUE
         IN Len(kFields) + Len(k) + 3 + C6_ListLen(m[k])
                + C6_FieldsLen(m, keys \ {k})

\* How many groups the Some fields give, and how much text.
C6_Groups(q) ==
    (IF q.include.some THEN 1 ELSE 0)
        + (IF q.fields.some THEN Cardinality(DOMAIN q.fields.v) ELSE 0)
        + (IF q.sort.some THEN 1 ELSE 0)
        + (IF q.filter.some THEN 1 ELSE 0)
        + (IF q.page.some THEN 1 ELSE 0)

C6_TextLen(q) ==
    (IF q.include.some
        THEN Len(kInclude) + 1 + C6_ListLen(q.include.v) ELSE 0)
        + (IF q.fields.some
              THEN C6_FieldsLen(q.fields.v, DOMAIN q.fields.v) ELSE 0)
        + (IF q.sort.some THEN Len(kSort) + 1 + C6_ListLen(q.sort.v) ELSE 0)
        + (IF q.filter.some
              THEN Len(kFilter) + 1 + Len(Display(q.filter.v)) ELSE 0)
        + (IF q.page.some
              THEN 2 * Len(kPage) + Len(kLimit) + Len(kOffset) + 7
                       + Len(FmtI64(q.page.v.limit))
                       + Len(FmtI64(q.page.v.offset))
              ELSE 0)

\* C6: only the Some fields are written.  The output is exactly as long as
\* the groups of the Some fields and one '&' between two groups, so a None
\* field gives no text and no separator; with every field None it is the
\* empty string, whatever _type is.
C6_OnlySome ==
    Encoded =>
        /\ Len(encoded) = C6_TextLen(query)
               + (IF C6_Groups(query) = 0 THEN 0 ELSE C6_Groups(query) - 1)
        /\ (/\ ~query.include.some /\ ~query.fields.some /\ ~query.page.some
            /\ ~query.sort.some /\ ~query.filter.some)
               => encoded = <<>>

\* The Query of the test, every field None, under another _type.
C6_Witness ==
    /\ Encoded
    /\ query = [DefaultQuery EXCEPT !._type = "post"]
    /\ encoded = <<>>

\* The pieces of a String leaf split on ',': they hold no ',', and joined
\* with ',' they give the String back, so none is dropped, trimmed or moved.
IsSplitOf(list, s) ==
    /\ list # <<>>
    /\ \A i \in 1..Len(list) : Find(list[i], <<",">>) = 0
    /\ C5_Commas(list) = s

\* What the claim gives for a top-level list key: None unless the key is
\* there with a String leaf.
C7_ListOk(got, key) ==
    LET leaf == Pointer(o, <<key>>)
    IN /\ got.some <=> (leaf.some /\ leaf.v.t = "String")
       /\ got.some => IsSplitOf(got.v, leaf.v.s)

\* C7: on tokenizer success include and sort are None exactly when the key
\* is absent or no String leaf, else Some of the String split on ',' with
\* every piece kept in place, the empty ones too; never Some(<<>>).
C7_IncludeSort ==
    DecodedOk =>
        /\ C7_ListOk(query.include, kInclude)
        /\ C7_ListOk(query.sort, kSort)

\* include=,a,,a&sort=a, : a leading, a doubled and a trailing comma, and a
\* name twice.
C7_Witness ==
    /\ DecodedOk
    /\ params = PairText(Pair(<<kInclude>>, <<",", "a", ",", ",", "a">>)) \o <<"&">>
                    \o PairText(Pair(<<kSort>>, <<"a", ",">>))
    /\ query.include = Some(<< <<>>, <<"a">>, <<>>, <<"a">> >>)
    /\ query.sort = Some(<< <<"a">>, <<>> >>)

\* C8: on tokenizer success the fields map is empty when 'fields' is
\* absent or no object; else its keys are exactly the object's member
\* keys, a String member giving its pieces and any other member the empty
\* list.
C8_Fields ==
    DecodedOk =>
        LET leaf == Pointer(o, <<kFields>>)
            got == query.fields.v
        IN IF leaf.some /\ leaf.v.t = "Object"
           THEN /\ DOMAIN got = DOMAIN leaf.v.m
                /\ \A k \in DOMAIN got :
                      IF leaf.v.m[k].t = "String"
                      THEN IsSplitOf(got[k], leaf.v.m[k].s)
                      ELSE got[k] = <<>>
           ELSE got = EmptyMap

\* fields[k][x]=a&fields[j]=c : the member k is an object and is kept, with
\* no names, beside the member j.
C8_Witness ==
    /\ DecodedOk
    /\ params = PairText(Pair(<<kFields, <<"k">>, <<"x">>>>, <<"a">>)) \o <<"&">>
                    \o PairText(Pair(<<kFields, <<"j">>>>, <<"c">>))
    /\ query.fields.v =
           Put(Put(EmptyMap, <<"k">>, <<>>), <<"j">>, << <<"c">> >>)

\* C9: on tokenizer success filter is Some exactly when 'filter' is there
\* with a String leaf that parses to an object, and is then that document;
\* in every other case it is None, and a Query is returned all the same.
C9_Filter ==
    DecodedOk =>
        LET leaf == Pointer(o, <<kFilter>>)
        IN /\ query.filter.some <=>
                 /\ leaf.some /\ leaf.v.t = "String"
                 /\ from_str(leaf.v.s).ok
                 /\ from_str(leaf.v.s).v.t = "Object"
           /\ query.filter.some => query.filter.v = from_str(leaf.v.s).v

\* filter={"b":2,"a":1} : the document with its two members.
C9_Witness ==
    /\ DecodedOk
    /\ query.filter =
           Some(VObject(Put(Put(EmptyMap, <<"a">>, VNumber(1)),
                            <<"b">>, VNumber(2))))

\* Whether a page key was given its default 0 for one of the three reasons:
\* absent, no String, or a String that does not parse.
C10_Defaulted(key) ==
    LET leaf == Pointer(o, <<kPage, key>>)
    IN ~leaf.some \/ leaf.v.t # "String" \/ ~ParseI64(leaf.v.s).ok

\* C10, as written: every default is logged.  A failure of the tokenizer
\* writes a diagnostic, and so does each of page/offset and page/limit
\* whenever it is defaulted.
C10_EveryDefaultLogged ==
    Decoded =>
        /\ ~tree.v.ok => log # <<>>
        /\ (tree.v.ok /\ C10_Defaulted(kOffset)) =>
               Range(log) \cap {"No page/offset found",
                                "page/offset not able to parse it",
                                "page/offset not an expected type"} # {}
        /\ (tree.v.ok /\ C10_Defaulted(kLimit)) =>
               Range(log) \cap {"No page/limit found",
                                "page/limit not able to parse it",
                                "page/limit not an expected type"} # {}

\* C2, as written, of a Query that from_params decoded from a string the
\* tokenizer accepted: the Query decoded again from query.to_params() has
\* its include, fields, page, sort and filter.
C2_RoundTrip ==
    (pc = "redecoded" /\ tree.some /\ tree.v.ok) =>
        /\ query2.include = query.include
        /\ query2.fields = query.fields
        /\ query2.page = query.page
        /\ query2.sort = query.sort
        /\ query2.filter = query.filter

\* C11, as written, of a Query that from_params decoded from a string the
\* tokenizer accepted: with s = query.to_params(), the string encoded from
\* the Query decoded from s is s again.
C11_FixedPoint ==
    (pc = "done" /\ tree.some /\ tree.v.ok) => encoded2 = encoded

====
